---------------------------- MODULE Spec2Model ----------------------------
(***************************************************************************)
(* spikedetekt2: the main detection loop, run() of core/main.py.           *)
(*                                                                         *)
(* run() reads the parameters, builds the adjacency graph of the probe,    *)
(* computes the two thresholds once, and then loops over the chunks of the *)
(* recording: it filters the chunk, thresholds it twice (side='below')     *)
(* and calls connected_components().  The body of the loop ends there:     *)
(* the per-component stage ("For each component: alignment, masking") is   *)
(* a comment.  The model keeps, in `processed`, the components each        *)
(* iteration binds to `components`, in the order the loop produced them.   *)
(*                                                                         *)
(* The callees of run() (get_adjacency_graph, get_threshold, chunks,       *)
(* apply_filter, apply_threshold, connected_components) are not part of    *)
(* core/main.py; they are modelled from their description in spec.md.      *)
(***************************************************************************)
EXTENDS Integers, Sequences, FiniteSets, TLC

(***************************************************************************)
(* Bounds of the model.                                                    *)
(***************************************************************************)
NSamples == 5         \* length of the recording, in samples
NChannels == 3        \* channels 0 .. NChannels-1
MaxEvents == 2        \* at most this many non-zero filtered samples

Times == 0 .. (NSamples - 1)
Channels == 0 .. (NChannels - 1)
Cells == Times \X Channels

\* Non-zero filtered sample values: a deep and a shallow negative
\* deflection, and a positive one.
Deflections == {-3, -2}
Amplitudes == Deflections \cup {3}

\* The robust amplitude scale of the recording (the statistic get_threshold
\* derives from the excerpts).
NoiseScale == 1

Polarities == {"positive", "negative", "both"}

VARIABLES
    fil,                \* the filtered recording: [Cells -> Int]
    prm,                \* the PRM dictionary
    prb,                \* the probe dictionary
    graph,              \* run(): graph
    threshold_strong,   \* run(): threshold_strong
    threshold_weak,     \* run(): threshold_weak
    pc,                 \* "start", "loop", "done", "error"
    k,                  \* index of the next chunk of the loop
    components,         \* run(): components, as bound by the last iteration
    processed,          \* every iteration's components, in loop order
    error               \* "none" or the exception that ended run()

vars == <<fil, prm, prb, graph, threshold_strong, threshold_weak, pc, k,
          components, processed, error>>

(***************************************************************************)
(* Small helpers.                                                          *)
(***************************************************************************)
Min(a, b) == IF a < b THEN a ELSE b
Max(a, b) == IF a > b THEN a ELSE b
Abs(x) == IF x < 0 THEN -x ELSE x

RECURSIVE KSubsets(_, _)
\* the subsets of S with at most n elements
KSubsets(S, n) ==
    IF n = 0 THEN {{}}
    ELSE LET P == KSubsets(S, n - 1)
         IN  P \cup {p \cup {x} : p \in P, x \in S}

(***************************************************************************)
(* Probe: channel groups with explicit neighbour pairs.                    *)
(***************************************************************************)
\* Two channel groups: a chain 0 - 1 - ... - (NChannels-2), and the last
\* channel on its own.
ProbeChain ==
    << [channels |-> 0 .. (NChannels - 2),
        graph    |-> {<<i, i + 1>> : i \in 0 .. (NChannels - 3)}],
       [channels |-> {NChannels - 1},
        graph    |-> {}] >>

\* The same probe with one pair that names a channel its group does not have.
ProbeUnknownChannel ==
    << [channels |-> 0 .. (NChannels - 2),
        graph    |-> {<<0, NChannels - 1>>}],
       [channels |-> {NChannels - 1},
        graph    |-> {}] >>

ProbeValid(p) ==
    \A g \in DOMAIN p : \A e \in p[g].graph :
        e[1] \in p[g].channels /\ e[2] \in p[g].channels

GetAdjacencyGraph(p) ==
    [c \in Channels |->
        {d \in Channels : \E g \in DOMAIN p :
            <<c, d>> \in p[g].graph \/ <<d, c>> \in p[g].graph}]

(***************************************************************************)
(* Thresholds.                                                             *)
(***************************************************************************)
GetThreshold(p) ==
    << NoiseScale * p.threshold_strong_multiplier,
       NoiseScale * p.threshold_weak_multiplier >>

(***************************************************************************)
(* Chunks: the core ranges tile the recording; each chunk's full data has  *)
(* chunk_overlap more samples on each side, clipped to the recording.      *)
(***************************************************************************)
NChunks == (NSamples + prm.chunk_size - 1) \div prm.chunk_size
ChunkStart(i) == i * prm.chunk_size
ChunkEnd(i) == Min(NSamples, (i + 1) * prm.chunk_size)
FullStart(i) == Max(0, ChunkStart(i) - prm.chunk_overlap)
FullEnd(i) == Min(NSamples, ChunkEnd(i) + prm.chunk_overlap)

\* the cells of chunk i's full data
FullCells(i) == (FullStart(i) .. (FullEnd(i) - 1)) \X Channels

\* chunk.data_chunk_full: the raw chunk, known by the cells it covers
DataChunkFull(i) == FullCells(i)

\* Filtering a chunk yields the filtered samples of the cells it covers, the
\* same values for every chunk that covers a cell.
ApplyFilter(data) == [x \in data |-> fil[x]]

(***************************************************************************)
(* Thresholding and connected components.  A boolean grid is the set of    *)
(* its true cells, in absolute sample coordinates.                         *)
(***************************************************************************)
ApplyThreshold(data, threshold, side) ==
    {x \in DOMAIN data :
        IF side = "below" THEN data[x] < threshold ELSE data[x] > threshold}

Adjacent(g, x, y) ==
    /\ Abs(x[1] - y[1]) <= 1
    /\ (x[2] = y[2] \/ y[2] \in g[x[2]])

RECURSIVE FloodFill(_, _, _)
FloodFill(g, weak, comp) ==
    LET grown == comp \cup {y \in weak : \E x \in comp : Adjacent(g, x, y)}
    IN  IF grown = comp THEN comp ELSE FloodFill(g, weak, grown)

\* the connected components of the weak grid
WeakComponents(chunk_weak, g) ==
    {FloodFill(g, chunk_weak, {x}) : x \in chunk_weak}

\* ... of which those with no strong crossing are discarded.  run() hands
\* over the two grids of the chunk's full data and not the chunk's core
\* range, so every component of the full data is returned, those that lie
\* in the overlap included.
ConnectedComponents(chunk_strong, chunk_weak, g) ==
    {comp \in WeakComponents(chunk_weak, g) : comp \cap chunk_strong # {}}

(***************************************************************************)
(* The body of the chunk loop of run().                                    *)
(***************************************************************************)
ChunkFil(i) == ApplyFilter(DataChunkFull(i))

\* a slip: the weak threshold used for the strong grid too
ChunkStrongAtWeak(i) == ApplyThreshold(ChunkFil(i), -threshold_weak, "below")

ChunkStrong(i) == ApplyThreshold(ChunkFil(i), -threshold_strong, "below")

\* a slip: the strong threshold used for the weak grid too
ChunkWeakAtStrong(i) == ApplyThreshold(ChunkFil(i), -threshold_strong, "below")

ChunkWeak(i) == ApplyThreshold(ChunkFil(i), -threshold_weak, "below")

Components(i) == ConnectedComponents(ChunkStrong(i), ChunkWeak(i), graph)

MinTime(comp) == CHOOSE t \in Times :
    /\ \E x \in comp : x[1] = t
    /\ \A x \in comp : x[1] >= t
MaxTime(comp) == CHOOSE t \in Times :
    /\ \E x \in comp : x[1] = t
    /\ \A x \in comp : x[1] <= t

RECURSIVE InTimeOrder(_)
\* a set of components as a list, earliest first
InTimeOrder(S) ==
    IF S = {} THEN << >>
    ELSE LET first == CHOOSE c \in S : \A d \in S : MinTime(c) <= MinTime(d)
         IN  <<first>> \o InTimeOrder(S \ {first})

(***************************************************************************)
(* The same body applied to the whole recording as one chunk               *)
(* (chunk_size = None).                                                    *)
(***************************************************************************)
WholeFil == ApplyFilter(Cells)

WholeComponents ==
    ConnectedComponents(ApplyThreshold(WholeFil, -threshold_strong, "below"),
                        ApplyThreshold(WholeFil, -threshold_weak, "below"),
                        graph)

\* The sample a component is anchored at: the time of its most extreme
\* (side 'below': lowest) sample, the earliest one of several.
Anchor(comp) == CHOOSE t \in Times :
    /\ \E x \in comp : x[1] = t /\ \A y \in comp : fil[x] <= fil[y]
    /\ \A x \in comp : (\A y \in comp : fil[x] <= fil[y]) => x[1] >= t

(***************************************************************************)
(* Inputs.                                                                 *)
(***************************************************************************)
\* the recordings with at most n non-zero samples, of the given values
RecordingsOf(n, values) ==
    {[x \in Cells |-> IF x \in DOMAIN a THEN a[x] ELSE 0] :
        a \in UNION {[E -> values] : E \in KSubsets(Cells, n)}}

Chunkings == {<<2, 1>>, <<3, 2>>, <<2, 2>>, <<NSamples, 1>>}

Param(cs, ov, pol, ms, mw) ==
    [chunk_size |-> cs, chunk_overlap |-> ov, detect_spikes |-> pol,
     threshold_strong_multiplier |-> ms, threshold_weak_multiplier |-> mw]

\* The parameters that change what the loop computes: the chunking
\* (chunk_overlap = 0 is the default of run()) and the multipliers.
LoopParams ==
    {Param(c[1], c[2], "negative", 2, 1) : c \in Chunkings}
    \cup {Param(2, 1, "negative", 2, 2), Param(3, 0, "negative", 2, 1)}

\* The other polarities, a polarity that is none of the three, and a weak
\* multiplier above the strong one.
OtherParams ==
    {Param(2, 1, pol, 2, 1) : pol \in (Polarities \ {"negative"}) \cup {"sideways"}}
    \cup {Param(2, 1, "negative", 2, 3)}

Init ==
    /\ \/ /\ fil \in RecordingsOf(MaxEvents, Deflections)
          /\ prm \in LoopParams
          /\ prb = ProbeChain
       \/ /\ fil \in RecordingsOf(1, Amplitudes)
          /\ prm \in LoopParams \cup OtherParams
          /\ prb = ProbeChain
       \/ /\ fil \in RecordingsOf(1, Amplitudes)
          /\ prm = Param(2, 1, "negative", 2, 1)
          /\ prb = ProbeUnknownChannel
    /\ graph = [c \in Channels |-> {}]
    /\ threshold_strong = 0
    /\ threshold_weak = 0
    /\ pc = "start"
    /\ k = 0
    /\ components = {}
    /\ processed = << >>
    /\ error = "none"

(***************************************************************************)
(* run(), up to the chunk loop: parameters, graph, thresholds.             *)
(***************************************************************************)
\* a slip: neighbours by channel number, whatever the channel groups
GraphByNumber == [c \in Channels |-> {d \in Channels : Abs(c - d) = 1}]

\* graph = get_adjacency_graph(prb): one graph for the whole probe.
Graph == GetAdjacencyGraph(prb)

Setup ==
    /\ pc = "start"
    /\ IF ~ProbeValid(prb) \/
          prm.threshold_weak_multiplier > prm.threshold_strong_multiplier
       THEN /\ pc' = "error"
            /\ error' = "ConfigError"
            /\ UNCHANGED <<graph, threshold_strong, threshold_weak>>
       ELSE /\ graph' = Graph
            /\ threshold_strong' = GetThreshold(prm)[1]
            /\ threshold_weak' = GetThreshold(prm)[2]
            /\ pc' = "loop"
            /\ UNCHANGED error
    /\ UNCHANGED <<fil, prm, prb, k, components, processed>>

\* a slip: the thresholds estimated again inside the loop, from the chunk's
\* own samples (a chunk with a deflection has twice the amplitude scale)
ProcessChunkRethresholding ==
    /\ pc = "loop"
    /\ k < NChunks
    /\ components' = Components(k)
    /\ processed' = processed \o InTimeOrder(Components(k))
    /\ k' = k + 1
    /\ LET scale == IF \E x \in FullCells(k) : fil[x] # 0 THEN 2 ELSE 1
       IN  /\ threshold_strong' = scale * GetThreshold(prm)[1]
           /\ threshold_weak' = scale * GetThreshold(prm)[2]
    /\ UNCHANGED <<fil, prm, prb, graph, pc, error>>

(***************************************************************************)
(* One iteration of the chunk loop.                                        *)
(***************************************************************************)
ProcessChunk ==
    /\ pc = "loop"
    /\ k < NChunks
    /\ components' = Components(k)
    /\ processed' = processed \o InTimeOrder(Components(k))
    /\ k' = k + 1
    /\ UNCHANGED <<fil, prm, prb, graph, threshold_strong, threshold_weak,
                   pc, error>>

(***************************************************************************)
(* The chunk iterator is exhausted: run() returns.                         *)
(***************************************************************************)
Finish ==
    /\ pc = "loop"
    /\ k = NChunks
    /\ pc' = "done"
    /\ UNCHANGED <<fil, prm, prb, graph, threshold_strong, threshold_weak,
                   k, components, processed, error>>

Next == Setup \/ ProcessChunk \/ Finish

Spec == Init /\ [][Next]_vars

TypeOK ==
    /\ pc \in {"start", "loop", "done", "error"}
    /\ error \in {"none", "ConfigError"}
    /\ k \in 0 .. NSamples
    /\ components \subseteq SUBSET Cells

(***************************************************************************)
(* Reference notions used to state the properties.                         *)
(***************************************************************************)
\* weak and strong crossings, read off the filtered samples
IsWeak(x) == fil[x] < -threshold_weak
IsStrong(x) == fil[x] < -threshold_strong

RECURSIVE PathWithin(_, _, _, _, _)
\* a path of at most n steps from x to y through adjacent cells of S
PathWithin(g, S, x, y, n) ==
    \/ x = y
    \/ /\ n > 0
       /\ \E z \in S : Adjacent(g, x, z) /\ PathWithin(g, S, z, y, n - 1)

Joined(g, S, x, y) == PathWithin(g, S, x, y, Cardinality(S))

\* M is a maximal connected set of cells of W
MaximalConnected(g, W, M) ==
    /\ M # {}
    /\ M \subseteq W
    /\ \A x \in M : \A y \in M : Joined(g, W, x, y)
    /\ \A x \in M : \A y \in W \ M : ~Adjacent(g, x, y)

MaximalSets(g, W) == {M \in SUBSET W : MaximalConnected(g, W, M)}

\* the maximal connected sets of weak crossings of the whole recording,
\* with and without a strong crossing
WholeWeakSets == MaximalSets(graph, {x \in Cells : IsWeak(x)})
WholeSpikes == {M \in WholeWeakSets : \E x \in M : IsStrong(x)}

Extent(comp) == MaxTime(comp) - MinTime(comp) + 1

\* chunk_overlap is at least the temporal extent of every component
ValidChunking ==
    /\ prm.chunk_size > 0
    /\ prm.chunk_overlap > 0
    /\ \A M \in WholeWeakSets : Extent(M) <= prm.chunk_overlap

\* how many of the processed components are anchored at sample t
CountAt(t) == Cardinality({i \in DOMAIN processed : Anchor(processed[i]) = t})

\* how many of the processed components hold a cell of M
TimesProcessed(M) ==
    Cardinality({i \in DOMAIN processed : processed[i] \cap M # {}})

(***************************************************************************)
(* C1. Boundary invariance: under a valid chunking, when the loop is over, *)
(* the components it produced are, counted by anchor sample, those of the  *)
(* whole recording processed as one chunk.                                 *)
(***************************************************************************)
C1_BoundaryInvariance ==
    (pc = "done" /\ ValidChunking) =>
        \A t \in Times :
            CountAt(t) = Cardinality({M \in WholeSpikes : Anchor(M) = t})

(***************************************************************************)
(* C2. Exactly once: when the loop is over, every maximal connected        *)
(* component of the whole recording that holds a strong crossing has been  *)
(* produced exactly once.                                                  *)
(***************************************************************************)
C2_ExactlyOnce ==
    pc = "done" => \A M \in WholeSpikes : TimesProcessed(M) = 1

(***************************************************************************)
(* C9. Order: the components come out in non-decreasing order of their     *)
(* minimal time index.                                                     *)
(***************************************************************************)
C9_FinalizationOrder ==
    \A i \in DOMAIN processed : \A j \in DOMAIN processed :
        i < j => MinTime(processed[i]) <= MinTime(processed[j])

(***************************************************************************)
(* C10. Held over: after a chunk that is not the last one, a component     *)
(* that touches the chunk's trailing margin is kept for the next chunk and *)
(* is not yet among the components handed on.                              *)
(***************************************************************************)
TouchesTrailingMargin(comp, i) ==
    ChunkEnd(i) < FullEnd(i) /\ MaxTime(comp) >= ChunkEnd(i)

C10_HeldOverLifecycle ==
    (pc = "loop" /\ k >= 1 /\ k < NChunks) =>
          \A c \in components :
              TouchesTrailingMargin(c, k - 1) =>
                  \A i \in DOMAIN processed : processed[i] # c

(***************************************************************************)
(* C3. Strong seed: of the maximal connected sets of weak crossings of the *)
(* chunk just processed, the loop produced exactly those that hold a       *)
(* strong crossing; a recording without a strong crossing produces         *)
(* nothing.                                                                *)
(***************************************************************************)
\* the weak crossings among the cells of chunk i
WeakCells(i) == {x \in FullCells(i) : IsWeak(x)}

Crossing(pol, v, threshold) ==
    CASE pol = "positive" -> v > threshold
      [] pol = "negative" -> v < -threshold
      [] OTHER -> Abs(v) > threshold

C4_PolarityHonoured ==
    (pc = "loop" /\ k < NChunks /\ prm.detect_spikes \in Polarities) =>
        \A x \in FullCells(k) :
            /\ x \in ChunkStrong(k) <=>
                   Crossing(prm.detect_spikes, fil[x], threshold_strong)
            /\ x \in ChunkWeak(k) <=>
                   Crossing(prm.detect_spikes, fil[x], threshold_weak)

(***************************************************************************)
(* C6. Invalid configuration: with a probe pair naming an unknown channel, *)
(* a weak multiplier above the strong one, a non-positive chunk size or    *)
(* overlap, or an unknown polarity, run() ends in ConfigError and the      *)
(* chunk loop is never entered.                                            *)
(***************************************************************************)
InvalidConfig ==
    \/ ~ProbeValid(prb)
    \/ prm.threshold_weak_multiplier > prm.threshold_strong_multiplier
    \/ prm.chunk_size <= 0
    \/ prm.chunk_overlap <= 0
    \/ prm.detect_spikes \notin Polarities

C6_InvalidConfigRejected ==
    InvalidConfig =>
        /\ pc \in {"start", "error"}
        /\ pc = "error" => error = "ConfigError"
        /\ processed = << >>

(***************************************************************************)
(* C7. Channel groups: no component of the chunk just processed holds      *)
(* cells of two channel groups, and the components of each group are those *)
(* found when the group is processed alone, with its own graph.            *)
(***************************************************************************)
InGroup(comp, g) == \A x \in comp : x[2] \in prb[g].channels

GroupAlone(g, i) ==
    LET cells == {x \in FullCells(i) : x[2] \in prb[g].channels}
    IN  ConnectedComponents({x \in cells : IsStrong(x)},
                            {x \in cells : IsWeak(x)},
                            GetAdjacencyGraph(<<prb[g]>>))

C11_ThresholdsFixed ==
    [][pc = "loop" =>
          /\ threshold_strong' = threshold_strong
          /\ threshold_weak' = threshold_weak
          /\ threshold_strong = GetThreshold(prm)[1]
          /\ threshold_weak = GetThreshold(prm)[2]
          /\ threshold_strong >= threshold_weak
          /\ threshold_weak >= 0
          /\ k < NChunks => ChunkStrong(k) \subseteq ChunkWeak(k)]_vars

\* a chunk after the first, about to be thresholded, with a strong crossing
\* and a crossing that is weak only
C11_Witness ==
    /\ pc = "loop"
    /\ k >= 1
    /\ k < NChunks
    /\ ChunkStrong(k) # {}
    /\ ChunkWeak(k) \ ChunkStrong(k) # {}
    /\ threshold_strong > threshold_weak

=============================================================================
